---- MODULE Spec2Model ----
(***************************************************************************)
(* Model of keyboardtester (src/main.go): the event loop of main, the      *)
(* fixed keyboard layout, the label resolution of key events, the log      *)
(* buffer with its trim, and the frame painted by drawAll.                 *)
(***************************************************************************)
EXTENDS Integers, Sequences, FiniteSets, TLC

(***************************************************************************)
(* Bounds of the model.                                                    *)
(***************************************************************************)
\* the tallest terminal: the heights run from sepY (capacity -1) up to it
MaxHeight == 37
\* the wall clock reads midnight or MaxClock seconds past it
MaxClock == 1
\* the tallest terminal of the specification of the log buffer
LogMaxHeight == 39
\* the two terminal widths: one clips every log line, one clips none
NarrowWidth == 40
WideWidth == 80

(***************************************************************************)
(* Key codes and modifier bits of tcell, as main.go uses them.             *)
(***************************************************************************)
KeyCtrlA == 1
KeyCtrlZ == 26
KeyBackspace == 8
KeyTab == 9
KeyEnter == 13
KeyEscape == 27
KeyBackspace2 == 127
KeyRune == 256
KeyUp == 257
KeyDown == 258
KeyRight == 259
KeyLeft == 260
KeyPgUp == 266
KeyPgDn == 267
KeyHome == 268
KeyEnd == 269
KeyInsert == 270
KeyDelete == 271
KeyF1 == 279
KeyF12 == 290

ModShift == 1
ModCtrl == 2
ModAlt == 4

\* the number of presses of one exit key that ends the session
ExitPresses == 5
\* the height of a key region
KeyH == 3
\* the width of the label field of a log line (%-7s) and of the code (%3d)
LabelField == 7
CodeField == 3

Min(a, b) == IF a < b THEN a ELSE b
Max(a, b) == IF a > b THEN a ELSE b

\* m & bit != 0, for bit a power of two
HasMod(m, bit) == (m \div bit) % 2 = 1

(***************************************************************************)
(* initKeys: the layout.                                                   *)
(***************************************************************************)
\* addRow without the column between two keys
RECURSIVE addRowFromNoGap(_, _, _, _)
addRowFromNoGap(labels, y, i, x) ==
    IF i > Len(labels) THEN <<>>
    ELSE LET L == labels[i]
             w == Len(L) + 2
         IN  <<[Label |-> L, X |-> x, Y |-> y, W |-> w, H |-> KeyH]>>
                 \o addRowFromNoGap(labels, y, i + 1, x + w)

RECURSIVE addRowFrom(_, _, _, _)
addRowFrom(labels, y, i, x) ==
    IF i > Len(labels) THEN <<>>
    ELSE LET L == labels[i]
             w == Len(L) + 2
         IN  <<[Label |-> L, X |-> x, Y |-> y, W |-> w, H |-> KeyH]>>
                 \o addRowFrom(labels, y, i + 1, x + w + 1)

addRow(labels, y) == addRowFrom(labels, y, 1, 0)

\* the label of the key left of "1": one grave accent
Backtick == SubSeq("`'", 1, 1)

initKeys ==
    addRow(<<"Esc", "F1", "F2", "F3", "F4", "F5", "F6", "F7", "F8", "F9", "F10", "F11", "F12">>, 0)
 \o addRow(<<Backtick, "1", "2", "3", "4", "5", "6", "7", "8", "9", "0", "-", "=", "Backspace">>, 4)
 \o addRow(<<"Tab", "Q", "W", "E", "R", "T", "Y", "U", "I", "O", "P", "[", "]", "\\">>, 8)
 \o addRow(<<"CapsLock", "A", "S", "D", "F", "G", "H", "J", "K", "L", ";", "'", "Enter">>, 12)
 \o addRow(<<"Shift", "Z", "X", "C", "V", "B", "N", "M", ",", ".", "/", "Shift">>, 16)
 \o addRow(<<"Fn", "Ctrl", "Win", "Alt", "Space", "Alt", "Win", "Menu", "Ctrl">>, 20)
 \o addRow(<<"Insert", "Home", "PgUp">>, 24)
 \o addRow(<<"Delete", "End", "PgDn">>, 28)
 \o addRow(<<"Left", "Down", "Right", "Up">>, 32)

keys == initKeys

\* the separator row: just below the last key of the layout
sepY == keys[Len(keys)].Y + keys[Len(keys)].H

(***************************************************************************)
(* Runes: one-character strings; the letters and their upper case.         *)
(***************************************************************************)
LowerLetters == <<"a", "b", "c", "d", "e", "f", "g", "h", "i", "j", "k", "l", "m",
                  "n", "o", "p", "q", "r", "s", "t", "u", "v", "w", "x", "y", "z">>
UpperLetters == <<"A", "B", "C", "D", "E", "F", "G", "H", "I", "J", "K", "L", "M",
                  "N", "O", "P", "Q", "R", "S", "T", "U", "V", "W", "X", "Y", "Z">>

IsUpper(r) == \E i \in 1..Len(UpperLetters) : UpperLetters[i] = r
IsLower(r) == \E i \in 1..Len(LowerLetters) : LowerLetters[i] = r
IsLetter(r) == IsUpper(r) \/ IsLower(r)

\* strings.ToUpper of a one-rune string
ToUpper(r) ==
    IF IsLower(r)
    THEN UpperLetters[CHOOSE i \in 1..Len(LowerLetters) : LowerLetters[i] = r]
    ELSE r

(***************************************************************************)
(* labelFromEvent and modString.                                           *)
(***************************************************************************)
\* tcell.KeyNames, on the keys labelFromEvent looks up
KeyNames ==
    [k \in (KeyUp..KeyLeft) \cup (KeyPgUp..KeyDelete) \cup (KeyF1..KeyF12) |->
        CASE k = KeyUp     -> "Up"
          [] k = KeyDown   -> "Down"
          [] k = KeyRight  -> "Right"
          [] k = KeyLeft   -> "Left"
          [] k = KeyPgUp   -> "PgUp"
          [] k = KeyPgDn   -> "PgDn"
          [] k = KeyHome   -> "Home"
          [] k = KeyEnd    -> "End"
          [] k = KeyInsert -> "Insert"
          [] k = KeyDelete -> "Delete"
          [] OTHER         -> "F" \o ToString(k - KeyF1 + 1)]

\* labelFromEvent without the upper-casing of a rune
labelFromEventRaw(e) ==
    CASE e.key = KeyEscape -> "Esc"
      [] e.key = KeyEnter  -> "Enter"
      [] e.key = KeyTab    -> "Tab"
      [] e.key \in {KeyBackspace, KeyBackspace2} -> "Backspace"
      [] e.key \in DOMAIN KeyNames -> KeyNames[e.key]
      [] e.key = KeyRune ->
            IF e.rune = " " THEN "Space" ELSE e.rune
      [] OTHER ->
            IF e.key >= KeyCtrlA /\ e.key <= KeyCtrlZ
            THEN UpperLetters[1 + (e.key - KeyCtrlA)]
            ELSE "Key[" \o ToString(e.key) \o "]"

\* labelFromEvent with one label for every unrecognized code
labelFromEventUnknown(e) ==
    CASE e.key = KeyEscape -> "Esc"
      [] e.key = KeyEnter  -> "Enter"
      [] e.key = KeyTab    -> "Tab"
      [] e.key \in {KeyBackspace, KeyBackspace2} -> "Backspace"
      [] e.key \in DOMAIN KeyNames -> KeyNames[e.key]
      [] e.key = KeyRune ->
            IF e.rune = " " THEN "Space" ELSE ToUpper(e.rune)
      [] OTHER ->
            IF e.key >= KeyCtrlA /\ e.key <= KeyCtrlZ
            THEN UpperLetters[1 + (e.key - KeyCtrlA)]
            ELSE "Key[?]"

\* labelFromEvent with the Ctrl+letter range tested before the named keys
labelFromEventCtrlFirst(e) ==
    IF e.key >= KeyCtrlA /\ e.key <= KeyCtrlZ
    THEN UpperLetters[1 + (e.key - KeyCtrlA)]
    ELSE CASE e.key = KeyEscape -> "Esc"
           [] e.key = KeyEnter  -> "Enter"
           [] e.key = KeyTab    -> "Tab"
           [] e.key \in {KeyBackspace, KeyBackspace2} -> "Backspace"
           [] e.key \in DOMAIN KeyNames -> KeyNames[e.key]
           [] e.key = KeyRune ->
                 IF e.rune = " " THEN "Space" ELSE ToUpper(e.rune)
           [] OTHER -> "Key[" \o ToString(e.key) \o "]"

labelFromEvent(e) ==
    CASE e.key = KeyEscape -> "Esc"
      [] e.key = KeyEnter  -> "Enter"
      [] e.key = KeyTab    -> "Tab"
      [] e.key \in {KeyBackspace, KeyBackspace2} -> "Backspace"
      [] e.key \in DOMAIN KeyNames -> KeyNames[e.key]
      [] e.key = KeyRune ->
            IF e.rune = " " THEN "Space" ELSE ToUpper(e.rune)
      [] OTHER ->
            IF e.key >= KeyCtrlA /\ e.key <= KeyCtrlZ
            THEN UpperLetters[1 + (e.key - KeyCtrlA)]
            ELSE "Key[" \o ToString(e.key) \o "]"

\* the parts modString joins
modParts(m) ==
       (IF HasMod(m, ModCtrl) THEN <<"Ctrl">> ELSE <<>>)
    \o (IF HasMod(m, ModAlt) THEN <<"Alt">> ELSE <<>>)
    \o (IF HasMod(m, ModShift) THEN <<"Shift">> ELSE <<>>)

RECURSIVE Join(_, _)
Join(parts, sep) ==
    IF Len(parts) = 0 THEN ""
    ELSE IF Len(parts) = 1 THEN parts[1]
    ELSE parts[1] \o sep \o Join(Tail(parts), sep)

modString(m) ==
    IF Len(modParts(m)) = 0 THEN "None" ELSE Join(modParts(m), "|")

(***************************************************************************)
(* The log line: time.Now().Format("15:04:05") and the Sprintf.            *)
(***************************************************************************)
RECURSIVE Spaces(_)
Spaces(n) == IF n <= 0 THEN "" ELSE " " \o Spaces(n - 1)

\* %-7s: pad on the right up to the width, never cut
PadRight(s, n) == s \o Spaces(n - Len(s))
\* %3d: pad on the left up to the width, never cut
PadLeft(s, n) == Spaces(n - Len(s)) \o s

TwoDigits(n) == IF n < 10 THEN "0" \o ToString(n) ELSE ToString(n)

\* t: seconds after midnight
FormatTime(t) ==
    TwoDigits(t \div 3600) \o ":" \o TwoDigits((t \div 60) % 60) \o ":" \o TwoDigits(t % 60)

LogLine(t, e) ==
    FormatTime(t) \o " | " \o PadRight(labelFromEvent(e), LabelField)
        \o " | Code=" \o PadLeft(ToString(e.key), CodeField)
        \o " | Mods=" \o modString(e.mods)

(***************************************************************************)
(* Events delivered by PollEvent.                                          *)
(***************************************************************************)
KeyEv(k, r, m) == [type |-> "key", key |-> k, rune |-> r, mods |-> m]
ResizeEv(w, h) == [type |-> "resize", w |-> w, h |-> h]
NoEvent == [type |-> "none"]

\* a code that is no named key, no rune and no Ctrl+letter: the one after Escape
KeyCtrlBackslash == KeyEscape + 1

Widths == {NarrowWidth, WideWidth}
Heights == sepY..MaxHeight
Times == {0, MaxClock}
\* the main specification handles every event at one instant
CoreTimes == {MaxClock}
LogHeights == sepY..LogMaxHeight

\* the key events of the main specification
CoreEvents ==
    { KeyEv(KeyEscape, "", 0), KeyEv(KeyEscape, "", ModShift),
      KeyEv(KeyEnter, "", 0), KeyEv(KeyRune, " ", 0),
      KeyEv(KeyRune, "a", 0), KeyEv(KeyCtrlBackslash, "", 0) }

(***************************************************************************)
(* The state of main.                                                      *)
(***************************************************************************)
VARIABLES
    logs,        \* []string, the log buffer
    pressed,     \* map[string]bool, as the set of labels mapped to true
    escCount, enterCount, spaceCount,
    scrW, scrH,  \* what s.Size() returns
    ev,          \* the event PollEvent returned last
    frame,       \* what the last drawAll painted
    calls,       \* the screen calls made while handling the last event
    pc           \* "poll": in the loop; "done": main has returned

vars == <<logs, pressed, escCount, enterCount, spaceCount, scrW, scrH, ev, frame, calls, pc>>

(***************************************************************************)
(* The steps of the key-event handler.                                     *)
(***************************************************************************)
\* the exit logic: the three counters after event e
escAfter(e, c) == IF e.key = KeyEscape THEN c + 1 ELSE c
enterAfter(e, c) == IF e.key = KeyEnter THEN c + 1 ELSE c
spaceAfter(e, c) == IF e.key = KeyRune /\ e.rune = " " THEN c + 1 ELSE c

\* the exit test with > in place of >=
exitsLate(e, esc, enter, space) ==
    \/ e.key = KeyEscape /\ escAfter(e, esc) > ExitPresses
    \/ e.key = KeyEnter /\ enterAfter(e, enter) > ExitPresses
    \/ e.key = KeyRune /\ e.rune = " " /\ spaceAfter(e, space) > ExitPresses

\* whether the exit logic returns from main on event e
exits(e, esc, enter, space) ==
    \/ e.key = KeyEscape /\ escAfter(e, esc) >= ExitPresses
    \/ e.key = KeyEnter /\ enterAfter(e, enter) >= ExitPresses
    \/ e.key = KeyRune /\ e.rune = " " /\ spaceAfter(e, space) >= ExitPresses

\* highlighting that lasts for one event only
markPressedMomentary(p, e) ==
    {labelFromEvent(e)}
      \cup (IF HasMod(e.mods, ModCtrl) \/ (e.key >= KeyCtrlA /\ e.key <= KeyCtrlZ)
            THEN {"Ctrl"} ELSE {})
      \cup (IF HasMod(e.mods, ModAlt) THEN {"Alt"} ELSE {})
      \cup (IF HasMod(e.mods, ModShift) THEN {"Shift"} ELSE {})

\* marking that reads the Ctrl bit only, not the Ctrl+letter code range
markPressedBitsOnly(p, e) ==
    p \cup {labelFromEvent(e)}
      \cup (IF HasMod(e.mods, ModCtrl) THEN {"Ctrl"} ELSE {})
      \cup (IF HasMod(e.mods, ModAlt) THEN {"Alt"} ELSE {})
      \cup (IF HasMod(e.mods, ModShift) THEN {"Shift"} ELSE {})
      \cup (IF e.key = KeyRune /\ IsLetter(e.rune) /\ IsUpper(e.rune)
               /\ ~HasMod(e.mods, ModShift)
            THEN {"CapsLock"} ELSE {})

\* marking whose CapsLock heuristic ignores the Shift bit
markPressedAnyUpper(p, e) ==
    p \cup {labelFromEvent(e)}
      \cup (IF HasMod(e.mods, ModCtrl) \/ (e.key >= KeyCtrlA /\ e.key <= KeyCtrlZ)
            THEN {"Ctrl"} ELSE {})
      \cup (IF HasMod(e.mods, ModAlt) THEN {"Alt"} ELSE {})
      \cup (IF HasMod(e.mods, ModShift) THEN {"Shift"} ELSE {})
      \cup (IF e.key = KeyRune /\ IsLetter(e.rune) /\ IsUpper(e.rune)
            THEN {"CapsLock"} ELSE {})

\* mark pressed keys permanently
markPressed(p, e) ==
    p \cup {labelFromEvent(e)}
      \cup (IF HasMod(e.mods, ModCtrl) \/ (e.key >= KeyCtrlA /\ e.key <= KeyCtrlZ)
            THEN {"Ctrl"} ELSE {})
      \cup (IF HasMod(e.mods, ModAlt) THEN {"Alt"} ELSE {})
      \cup (IF HasMod(e.mods, ModShift) THEN {"Shift"} ELSE {})
      \cup (IF e.key = KeyRune /\ IsLetter(e.rune) /\ IsUpper(e.rune)
               /\ ~HasMod(e.mods, ModShift)
            THEN {"CapsLock"} ELSE {})

\* a trim that keeps the oldest maxLines entries
safeTrimOldest(l, h) ==
    LET maxLines == h - sepY - 1
    IN  IF maxLines <= 0 THEN <<>>
        ELSE IF Len(l) > maxLines THEN SubSeq(l, 1, maxLines)
        ELSE l

\* a trim that counts the separator row as a log row
safeTrimNoSeparator(l, h) ==
    LET maxLines == h - sepY
    IN  IF maxLines <= 0 THEN <<>>
        ELSE IF Len(l) > maxLines THEN SubSeq(l, Len(l) - maxLines + 1, Len(l))
        ELSE l

\* safe trim of the log buffer l on a screen of height h
safeTrim(l, h) ==
    LET maxLines == h - sepY - 1
    IN  IF maxLines <= 0 THEN <<>>
        ELSE IF Len(l) > maxLines THEN SubSeq(l, Len(l) - maxLines + 1, Len(l))
        ELSE l

\* a drawAll that highlights only the first key region of each pressed label
drawAllFirstMatch(l, p, w) ==
    [blue |-> {i \in 1..Len(keys) :
                 /\ keys[i].Label \in p
                 /\ \A j \in 1..(i - 1) : keys[j].Label # keys[i].Label},
     sep  |-> [y |-> sepY, w |-> w],
     log  |-> [i \in 1..Len(l) |->
                 [row |-> sepY + 1 + (i - 1), text |-> l[i], cols |-> Min(Len(l[i]), w)]]]

\* a drawAll that paints every character of a log line, whatever the width
drawAllNoClip(l, p, w) ==
    [blue |-> {i \in 1..Len(keys) : keys[i].Label \in p},
     sep  |-> [y |-> sepY, w |-> w],
     log  |-> [i \in 1..Len(l) |->
                 [row |-> sepY + 1 + (i - 1), text |-> l[i], cols |-> Len(l[i])]]]

\* what drawAll paints on a screen of width w: the highlighted key regions,
\* the separator, and per log line its row, text and number of cells painted
drawAll(l, p, w) ==
    [blue |-> {i \in 1..Len(keys) : keys[i].Label \in p},
     sep  |-> [y |-> sepY, w |-> w],
     log  |-> [i \in 1..Len(l) |->
                 [row |-> sepY + 1 + (i - 1), text |-> l[i], cols |-> Min(Len(l[i]), w)]]]

(***************************************************************************)
(* The state machine.                                                      *)
(***************************************************************************)
Init ==
    /\ logs = <<>>
    /\ pressed = {}
    /\ escCount = 0 /\ enterCount = 0 /\ spaceCount = 0
    /\ scrW \in Widths
    /\ scrH \in Heights
    /\ ev = NoEvent
    /\ frame = drawAll(<<>>, {}, scrW)
    /\ calls = <<"drawAll", "Show">>
    /\ pc = "poll"

\* the handler with the exit logic after the marking of the pressed keys
KeyEventMarksFirst(e, t) ==
    /\ pc = "poll"
    /\ ev' = e
    /\ escCount' = escAfter(e, escCount)
    /\ enterCount' = enterAfter(e, enterCount)
    /\ spaceCount' = spaceAfter(e, spaceCount)
    /\ pressed' = markPressed(pressed, e)
    /\ IF exits(e, escCount, enterCount, spaceCount)
       THEN /\ pc' = "done"
            /\ calls' = <<"Fini">>
            /\ UNCHANGED <<logs, frame>>
       ELSE /\ pc' = "poll"
            /\ logs' = safeTrim(Append(logs, LogLine(t, e)), scrH)
            /\ frame' = drawAll(logs', pressed', scrW)
            /\ calls' = <<"drawAll", "Show">>
    /\ UNCHANGED <<scrW, scrH>>

\* the handler with the redraw before the marking, the append and the trim
KeyEventDrawsFirst(e, t) ==
    /\ pc = "poll"
    /\ ev' = e
    /\ escCount' = escAfter(e, escCount)
    /\ enterCount' = enterAfter(e, enterCount)
    /\ spaceCount' = spaceAfter(e, spaceCount)
    /\ IF exits(e, escCount, enterCount, spaceCount)
       THEN /\ pc' = "done"
            /\ calls' = <<"Fini">>
            /\ UNCHANGED <<logs, pressed, frame>>
       ELSE /\ pc' = "poll"
            /\ frame' = drawAll(logs, pressed, scrW)
            /\ calls' = <<"drawAll", "Show">>
            /\ pressed' = markPressed(pressed, e)
            /\ logs' = safeTrim(Append(logs, LogLine(t, e)), scrH)
    /\ UNCHANGED <<scrW, scrH>>

\* case *tcell.EventKey: event e arrives when the wall clock reads t
KeyEvent(e, t) ==
    /\ pc = "poll"
    /\ ev' = e
    /\ escCount' = escAfter(e, escCount)
    /\ enterCount' = enterAfter(e, enterCount)
    /\ spaceCount' = spaceAfter(e, spaceCount)
    /\ IF exits(e, escCount, enterCount, spaceCount)
       THEN /\ pc' = "done"
            /\ calls' = <<"Fini">>
            /\ UNCHANGED <<logs, pressed, frame>>
       ELSE /\ pc' = "poll"
            /\ pressed' = markPressed(pressed, e)
            /\ logs' = safeTrim(Append(logs, LogLine(t, e)), scrH)
            /\ frame' = drawAll(logs', pressed', scrW)
            /\ calls' = <<"drawAll", "Show">>
    /\ UNCHANGED <<scrW, scrH>>

\* a resize handler that trims the log buffer to the new height
ResizeTrims(w, h) ==
    /\ pc = "poll"
    /\ ev' = ResizeEv(w, h)
    /\ scrW' = w
    /\ scrH' = h
    /\ logs' = safeTrim(logs, h)
    /\ calls' = <<"Sync">>
    /\ UNCHANGED <<pressed, escCount, enterCount, spaceCount, frame, pc>>

\* case *tcell.EventResize: the terminal now has size w x h
Resize(w, h) ==
    /\ pc = "poll"
    /\ ev' = ResizeEv(w, h)
    /\ scrW' = w
    /\ scrH' = h
    /\ calls' = <<"Sync">>
    /\ UNCHANGED <<logs, pressed, escCount, enterCount, spaceCount, frame, pc>>

Next ==
    \/ \E e \in CoreEvents, t \in CoreTimes : KeyEvent(e, t)
    \/ \E w \in Widths, h \in Heights : Resize(w, h)

Spec == Init /\ [][Next]_vars

(***************************************************************************)
(* The log buffer: letter keys and an unrecognized code only, so that no   *)
(* event ends the session, on taller terminals and a clock that advances.  *)
(***************************************************************************)
LogEvents ==
    { KeyEv(KeyRune, "a", 0), KeyEv(KeyRune, "A", ModShift),
      KeyEv(KeyCtrlBackslash, "", 0) }

InitLog ==
    /\ logs = <<>>
    /\ pressed = {}
    /\ escCount = 0 /\ enterCount = 0 /\ spaceCount = 0
    /\ scrW \in Widths
    /\ scrH \in LogHeights
    /\ ev = NoEvent
    /\ frame = drawAll(<<>>, {}, scrW)
    /\ calls = <<"drawAll", "Show">>
    /\ pc = "poll"

NextLog ==
    \/ \E e \in LogEvents, t \in Times : KeyEvent(e, t)
    \/ \E w \in Widths, h \in LogHeights : Resize(w, h)

SpecLog == InitLog /\ [][NextLog]_vars

(***************************************************************************)
(* Named keys: Enter, Tab, both Backspace codes, F1 and Ctrl+A.            *)
(***************************************************************************)
NamedEvents ==
    { KeyEv(KeyEnter, "", 0), KeyEv(KeyTab, "", 0), KeyEv(KeyBackspace, "", 0),
      KeyEv(KeyBackspace2, "", 0), KeyEv(KeyF1, "", 0), KeyEv(KeyCtrlA, "", ModCtrl) }

NextKeys ==
    \/ \E e \in NamedEvents, t \in CoreTimes : KeyEvent(e, t)
    \/ \E w \in Widths, h \in Heights : Resize(w, h)

SpecKeys == Init /\ [][NextKeys]_vars

(***************************************************************************)
(* Modifiers: runes with and without modifier bits, and the code of        *)
(* Ctrl+C without any bit.                                                 *)
(***************************************************************************)
KeyCtrlC == KeyCtrlA + 2

ModEvents ==
    { KeyEv(KeyRune, "a", 0), KeyEv(KeyRune, "A", 0), KeyEv(KeyRune, "A", ModShift),
      KeyEv(KeyRune, "1", ModAlt), KeyEv(KeyRune, "a", ModCtrl + ModShift),
      KeyEv(KeyCtrlC, "", 0) }

NextMods ==
    \/ \E e \in ModEvents, t \in CoreTimes : KeyEvent(e, t)
    \/ \E w \in Widths, h \in Heights : Resize(w, h)

SpecMods == Init /\ [][NextMods]_vars

(***************************************************************************)
(* Plain keys: Enter, Tab and Backspace without modifiers, nothing else.   *)
(***************************************************************************)
PlainEvents ==
    { KeyEv(KeyEnter, "", 0), KeyEv(KeyTab, "", 0), KeyEv(KeyBackspace, "", 0) }

NextPlain ==
    \/ \E e \in PlainEvents, t \in CoreTimes : KeyEvent(e, t)
    \/ \E w \in Widths, h \in Heights : Resize(w, h)

SpecPlain == Init /\ [][NextPlain]_vars

(***************************************************************************)
(* Letters: the rune 'a' and the rune 'A' with Shift, nothing else.        *)
(***************************************************************************)
LetterEvents == { KeyEv(KeyRune, "a", 0), KeyEv(KeyRune, "A", ModShift) }

NextLetters ==
    \/ \E e \in LetterEvents, t \in Times : KeyEvent(e, t)
    \/ \E w \in Widths, h \in LogHeights : Resize(w, h)

SpecLetters == InitLog /\ [][NextLetters]_vars

(***************************************************************************)
(* Vocabulary of the properties.                                           *)
(***************************************************************************)
\* the number of terminal rows below the separator, for a terminal of height h
RowsBelowSeparator(h) == h - (sepY + 1)
Capacity(h) == Max(0, RowsBelowSeparator(h))

\* the last n entries of s, in their order
LastN(s, n) ==
    LET k == Min(Max(n, 0), Len(s))
    IN  [i \in 1..k |-> s[Len(s) - k + i]]

\* the step handles a key event and stays in the loop
NonTerminatingKeyStep == ev'.type = "key" /\ pc = "poll" /\ pc' = "poll"
\* the step handles a key event and returns from main
TerminatingStep == pc = "poll" /\ pc' = "done"
\* the step handles a resize event
ResizeStep == ev'.type = "resize" /\ pc = "poll"

EscPlain == KeyEv(KeyEscape, "", 0)
EscShift == KeyEv(KeyEscape, "", ModShift)
LowerA == KeyEv(KeyRune, "a", 0)
ShiftA == KeyEv(KeyRune, "A", ModShift)
RawCode == KeyEv(KeyCtrlBackslash, "", 0)

\* C1: in every reachable state the log buffer is no longer than
\* max(0, capacity), the capacity being the number of rows below the
\* separator at the current terminal height.
C1_LogWithinCapacity == Len(logs) <= Capacity(scrH)

\* C2: the three exit counters never decrease and no resize or other key
\* changes them; main returns exactly on the key event that takes one
\* counter from below 5 to 5, and on no other event.
C2_ExitCounters ==
    [][ /\ escCount' >= escCount /\ enterCount' >= enterCount /\ spaceCount' >= spaceCount
        /\ (pc' = "done") <=> (ExitPresses \in {escCount', enterCount', spaceCount'})
        /\ (pc' = "poll") => (\A c \in {escCount', enterCount', spaceCount'} : c < ExitPresses)
        /\ TerminatingStep =>
              /\ ev'.type = "key"
              /\ \/ ev'.key = KeyEscape /\ escCount = ExitPresses - 1 /\ escCount' = ExitPresses
                 \/ ev'.key = KeyEnter /\ enterCount = ExitPresses - 1 /\ enterCount' = ExitPresses
                 \/ ev'.key = KeyRune /\ ev'.rune = " "
                        /\ spaceCount = ExitPresses - 1 /\ spaceCount' = ExitPresses
        /\ (ev'.type = "resize"
              \/ (ev'.type = "key" /\ ev'.key \notin {KeyEscape, KeyEnter}
                    /\ ~(ev'.key = KeyRune /\ ev'.rune = " ")))
              => /\ UNCHANGED <<escCount, enterCount, spaceCount>>
                 /\ pc' = pc
      ]_vars

\* C2 witness: the session ended on the fifth Enter, with four Escapes, four
\* spaces and an unrecognized code in between.
C2_Witness ==
    /\ pc = "done" /\ enterCount = ExitPresses
    /\ escCount = ExitPresses - 1 /\ spaceCount = ExitPresses - 1
    /\ "Key[28]" \in pressed /\ "A" \in pressed

\* C3: the key event that takes an exit counter to 5 leaves the pressed set,
\* the log buffer and the frame as they were and draws nothing; a session
\* that saw nothing but Escape ends with the pressed set {"Esc"}.
C3_TerminatingEventMutatesNothing ==
    [][ /\ TerminatingStep =>
              /\ pressed' = pressed /\ logs' = logs /\ frame' = frame
              /\ \A i \in 1..Len(calls') : calls'[i] \notin {"drawAll", "Show"}
        /\ (pc' = "done" /\ pressed' \subseteq {"Esc"}) =>
              /\ pressed' = {"Esc"}
              /\ escCount' = ExitPresses /\ enterCount' = 0 /\ spaceCount' = 0
      ]_vars

\* C3 witness: the fifth Escape carried Shift, which was never pressed before,
\* and the pressed set is still {"Esc"}.
C3_Witness ==
    /\ pc = "done" /\ ev = EscShift /\ escCount = ExitPresses
    /\ pressed = {"Esc"} /\ enterCount = 0 /\ spaceCount = 0

\* C4: no step removes a label from the pressed set.
C4_PressedOnlyGrows == [][pressed \subseteq pressed']_vars

\* C4 witness: every label the events can produce is pressed, after the
\* terminating event.
C4_Witness ==
    /\ pc = "done"
    /\ pressed = {"Esc", "Enter", "Ctrl", "Space", "A", "Shift", "Key[28]"}

\* C5: after a non-terminating key event the log buffer is the last
\* max(0, capacity) entries of the previous buffer followed by the new entry,
\* in order; it is empty when the capacity is zero or negative.
C5_TrimKeepsMostRecent ==
    [][ NonTerminatingKeyStep =>
          /\ \E t \in Times :
                logs' = LastN(Append(logs, LogLine(t, ev')), Capacity(scrH))
          /\ RowsBelowSeparator(scrH) <= 0 => logs' = <<>>
      ]_vars

\* C5 witness: a full buffer of two or more distinct entries from which the
\* entry of the unrecognized code, pressed earlier, has been dropped.
C5_Witness ==
    /\ ev.type = "key" /\ RowsBelowSeparator(scrH) >= 2
    /\ Len(logs) = RowsBelowSeparator(scrH)
    /\ logs[1] # logs[2]
    /\ "Key[28]" \in pressed
    /\ \A i \in 1..Len(logs), t \in Times : logs[i] # LogLine(t, RawCode)

\* the label field of a log line: the characters after the time and " | "
LabelOf(line, n) == SubSeq(line, 12, 11 + n)

\* C6 as stated: the layout fills rows 0..35, the separator is row 36, and a
\* key event on a terminal of height H leaves at most H-37 entries.
C6_CapacityHeightMinus37 ==
    (ev.type = "key" /\ pc = "poll") =>
        /\ frame.sep.y = 36
        /\ Len(logs) <= Max(0, scrH - 37)

\* C6 amended: the layout fills rows 0..34, the separator is row 35, and the
\* capacity used for trimming is H-36: a key event on a buffer within the
\* capacity leaves min(length+1, H-36) entries, and on a full buffer it drops
\* exactly the oldest entry, so H-36+3 appends leave H-36 entries.
C6_CapacityHeightMinus36 ==
    [][ /\ sepY = 35
        /\ \A i \in 1..Len(keys) : keys[i].Y >= 0 /\ keys[i].Y + keys[i].H - 1 <= 34
        /\ NonTerminatingKeyStep =>
              /\ Len(logs') = Min(Len(logs) + 1, Max(0, scrH - 36))
              /\ (scrH - 36 > 0 /\ Len(logs) = scrH - 36) =>
                    /\ \A i \in 1..(Len(logs) - 1) : logs'[i] = logs[i + 1]
                    /\ \E t \in CoreTimes : logs'[Len(logs')] = LogLine(t, ev')
      ]_vars

\* C6 witness: at least H-36+3 key events have been handled and the buffer
\* holds exactly H-36 entries.
C6_Witness ==
    /\ pc = "poll" /\ ev.type = "key"
    /\ scrH - 36 >= 1
    /\ escCount + enterCount + spaceCount >= (scrH - 36) + 3
    /\ Len(logs) = scrH - 36

\* C7: a resize event is followed by a full redraw: drawAll of the current
\* log buffer and pressed set at the new terminal size, then Show.
C7_ResizeRedraws ==
    [][ ResizeStep =>
          /\ frame' = drawAll(logs', pressed', scrW')
          /\ \E i \in 1..Len(calls') : calls'[i] = "drawAll"
      ]_vars

\* C8: a resize event changes neither the pressed set, nor the log buffer,
\* nor any exit counter, whatever the new size.
C8_ResizeMutatesNoData ==
    [][ ResizeStep =>
          /\ pressed' = pressed /\ logs' = logs
          /\ escCount' = escCount /\ enterCount' = enterCount /\ spaceCount' = spaceCount
      ]_vars

\* C8 witness: a resize has just shrunk the terminal below the length of the
\* log buffer, and the buffer and the pressed set are still there.
C8_Witness ==
    /\ ev.type = "resize" /\ calls = <<"Sync">>
    /\ Len(logs) > Capacity(scrH)
    /\ pressed # {} /\ escCount > 0

\* C9: a letter has one label, its upper case, with and without Shift; after
\* the rune 'a' and then the rune 'A' with Shift the pressed set is exactly
\* {"A", "Shift"}.
C9_LetterCaseCollapses ==
    /\ \A i \in 1..Len(LowerLetters) :
          /\ labelFromEvent(KeyEv(KeyRune, LowerLetters[i], 0)) = UpperLetters[i]
          /\ labelFromEvent(KeyEv(KeyRune, UpperLetters[i], ModShift)) = UpperLetters[i]
    /\ ev = LowerA => pressed \in {{"A"}, {"A", "Shift"}}
    /\ ev = ShiftA => pressed = {"A", "Shift"}
    /\ pressed \subseteq {"A", "Shift"}

\* C9 witness: the last two log entries are those of 'a' and of Shift+'A',
\* in that order, and Shift+'A' is the last event.
C9_Witness ==
    /\ ev = ShiftA /\ Len(logs) >= 2
    /\ \E t \in Times : logs[Len(logs) - 1] = LogLine(t, LowerA)
    /\ \E t \in Times : logs[Len(logs)] = LogLine(t, ShiftA)
    /\ pressed = {"A", "Shift"}

\* the named keys of labelFromEvent
NamedKeys ==
    {KeyEscape, KeyEnter, KeyTab, KeyBackspace, KeyBackspace2}
        \cup (KeyF1..KeyF12) \cup (KeyUp..KeyLeft) \cup (KeyPgUp..KeyDelete)

\* C10: an unmodified key event whose code is no named key, no rune and no
\* Ctrl+letter stays in the loop, adds the label "Key[<code>]" to the pressed
\* set, appends one log entry carrying that label and code, is followed by a
\* redraw of the new state, and changes no exit counter.
C10_UnrecognizedCodeIsKept ==
    [][ (ev'.type = "key" /\ pc = "poll" /\ ev'.key \notin NamedKeys
           /\ ev'.key # KeyRune /\ ~(ev'.key >= KeyCtrlA /\ ev'.key <= KeyCtrlZ)
           /\ ev'.mods = 0) =>
          LET code == ToString(ev'.key)
              label == "Key[" \o code \o "]"
          IN  /\ pc' = "poll"
              /\ pressed' = pressed \cup {label}
              /\ \E t \in CoreTimes :
                    LET line == LogLine(t, ev')
                    IN  /\ LabelOf(line, Len(label)) = label
                        /\ logs' = LastN(Append(logs, line), Capacity(scrH))
              /\ frame' = drawAll(logs', pressed', scrW')
              /\ calls' = <<"drawAll", "Show">>
              /\ UNCHANGED <<escCount, enterCount, spaceCount>>
      ]_vars

\* C10 witness: the unrecognized code 28 was the last event; its label is
\* pressed, its entry is the newest of the log, and the counters stand.
C10_Witness ==
    /\ ev = RawCode /\ pc = "poll"
    /\ "Key[28]" \in pressed
    /\ Len(logs) >= 1 /\ LabelOf(logs[Len(logs)], 7) = "Key[28]"
    /\ calls = <<"drawAll", "Show">>
    /\ escCount = 2 /\ enterCount = 1 /\ spaceCount = 3

\* the number of drawAll calls made while handling the last event
DrawCalls == Cardinality({i \in 1..Len(calls) : calls[i] = "drawAll"})

\* C11: drawAll runs once before the first event is polled and exactly once
\* after every non-terminating key event, on the pressed set and the trimmed
\* log buffer that event left; whenever an event is polled the frame shows
\* the current pressed set and log buffer.
C11_RenderAfterEveryMutation ==
    /\ ev.type = "none" =>
          /\ DrawCalls = 1 /\ calls[Len(calls)] = "Show"
          /\ frame = drawAll(<<>>, {}, scrW)
    /\ (ev.type = "key" /\ pc = "poll") =>
          /\ DrawCalls = 1 /\ calls[Len(calls)] = "Show"
          /\ frame = drawAll(logs, pressed, scrW)
    /\ pc = "poll" =>
          /\ frame.blue = {i \in 1..Len(keys) : keys[i].Label \in pressed}
          /\ Len(frame.log) = Len(logs)
          /\ \A i \in 1..Len(logs) : frame.log[i].text = logs[i]

\* C11 witness: a key event has just replaced the only entry of a full log
\* buffer and added its label, and the frame shows both.
C11_Witness ==
    /\ ev = RawCode /\ pc = "poll" /\ escCount >= 1
    /\ Len(logs) = 1 /\ Capacity(scrH) = 1
    /\ Len(frame.log) = 1 /\ LabelOf(frame.log[1].text, 7) = "Key[28]"
    /\ Cardinality(frame.blue) >= 1

\* the canonical labels of the named keys
CanonicalLabels ==
    { <<KeyEscape, "Esc">>, <<KeyEnter, "Enter">>, <<KeyTab, "Tab">>,
      <<KeyBackspace, "Backspace">>, <<KeyBackspace2, "Backspace">>,
      <<KeyUp, "Up">>, <<KeyDown, "Down">>, <<KeyLeft, "Left">>, <<KeyRight, "Right">>,
      <<KeyHome, "Home">>, <<KeyEnd, "End">>, <<KeyInsert, "Insert">>,
      <<KeyDelete, "Delete">>, <<KeyPgUp, "PgUp">>, <<KeyPgDn, "PgDn">> }
        \cup { <<KeyF1 + n - 1, "F" \o ToString(n)>> : n \in 1..12 }

\* key events over every code up to a few past F12, some runes, every mask
SampleRunes == {" ", "a", "A", "m", "Z", "1", "-"}
SampleCodes ==
    (0..(KeyEscape + 4)) \cup {KeyBackspace2} \cup ((KeyRune + 1)..(KeyF12 + 2))
SampleEvents ==
    { KeyEv(k, "", m) : k \in SampleCodes, m \in 0..7 }
        \cup { KeyEv(KeyRune, r, m) : r \in SampleRunes, m \in 0..7 }

\* the label table: non-empty, the same for every modifier mask, the
\* canonical label for a named key, "Space" for the space rune, and the
\* letter 'A' + (code - CtrlA) for a Ctrl code that is no named key
LabelTable ==
    \A e \in SampleEvents :
        LET label == labelFromEvent(e)
        IN  /\ Len(label) >= 1
            /\ label = labelFromEvent([e EXCEPT !.mods = 0])
            /\ \A c \in CanonicalLabels : c[1] = e.key => label = c[2]
            /\ (e.key = KeyRune /\ e.rune = " ") => label = "Space"
            /\ (e.key >= KeyCtrlA /\ e.key <= KeyCtrlZ
                  /\ e.key \notin NamedKeys) =>
                  label = UpperLetters[1 + (e.key - KeyCtrlA)]

\* C12: label resolution gives every key event one non-empty label, in
\* priority order: Enter, Tab and Backspace get their names although their
\* codes are Ctrl+M, Ctrl+I and Ctrl+H; the space rune gets "Space"; any other
\* code in Ctrl+A..Ctrl+Z gets its upper-case letter.
C12_LabelResolution ==
    /\ LabelTable
    /\ (ev.type = "key" /\ pc = "poll") => labelFromEvent(ev) \in pressed
    /\ pressed \cap {"M", "I", "H"} = {}
    /\ pressed \subseteq {"Enter", "Tab", "Backspace", "F1", "A", "Ctrl"}

\* C12 witness: Enter, Tab, Backspace and Ctrl+A have all been pressed, Tab
\* last.
C12_Witness ==
    /\ ev = KeyEv(KeyTab, "", 0) /\ pc = "poll"
    /\ {"Enter", "Tab", "Backspace", "A", "F1"} \subseteq pressed

\* bit b (0, 1, 2: Shift, Ctrl, Alt) of the mask m
Bit(m, b) == (m \div (2 ^ b)) % 2 = 1
\* the modifier labels an event asserts: Ctrl by bit or by code, Alt and
\* Shift by bit
AssertedMods(e) ==
    {l \in {"Ctrl"} : Bit(e.mods, 1) \/ e.key \in KeyCtrlA..KeyCtrlZ}
        \cup {l \in {"Alt"} : Bit(e.mods, 2)}
        \cup {l \in {"Shift"} : Bit(e.mods, 0)}
\* a rune event of an upper-case letter without the Shift bit
CapsShape(e) ==
    /\ e.key = KeyRune
    /\ \E i \in 1..Len(UpperLetters) : UpperLetters[i] = e.rune
    /\ ~Bit(e.mods, 0)

CtrlCNoBit == KeyEv(KeyCtrlC, "", 0)
UpperANoShift == KeyEv(KeyRune, "A", 0)

\* C13: a non-terminating key event adds "Ctrl" exactly when its mask has
\* the Ctrl bit or its code is in Ctrl+A..Ctrl+Z, "Alt" exactly when the Alt
\* bit is set, "Shift" exactly when the Shift bit is set, and beyond its own
\* label and the CapsLock inference nothing else.
C13_ModifierLabels ==
    [][ NonTerminatingKeyStep =>
          /\ pressed' \cap {"Ctrl", "Alt", "Shift"}
                = (pressed \cap {"Ctrl", "Alt", "Shift"}) \cup AssertedMods(ev')
          /\ pressed' \ pressed
                \subseteq AssertedMods(ev') \cup {labelFromEvent(ev'), "CapsLock"}
      ]_vars

\* C13 witness: the code of Ctrl+C without any bit has added "Ctrl", and
\* neither "Alt" nor "Shift" is pressed.
C13_Witness ==
    /\ ev = CtrlCNoBit /\ pc = "poll"
    /\ "Ctrl" \in pressed /\ "Alt" \notin pressed /\ "Shift" \notin pressed
    /\ "A" \in pressed

\* C14: "CapsLock" enters the pressed set exactly on a non-terminating rune
\* event of an upper-case letter without the Shift bit; no other event sets it.
C14_CapsLockHeuristic ==
    [][ ("CapsLock" \in pressed') <=>
          \/ "CapsLock" \in pressed
          \/ NonTerminatingKeyStep /\ CapsShape(ev')
      ]_vars

\* C14 witness: 'A' without Shift has set "CapsLock", after a Ctrl-coded
\* letter, a digit and Shift+'A' had not.
C14_Witness ==
    /\ ev = UpperANoShift /\ pc = "poll"
    /\ "CapsLock" \in pressed
    /\ {"C", "1", "Shift"} \subseteq pressed

\* the key regions carrying the label l
RegionsOf(l) == {i \in 1..Len(keys) : keys[i].Label = l}
\* the groups of two or more regions that share a label
SharedRegions ==
    {g \in {RegionsOf(keys[i].Label) : i \in 1..Len(keys)} : Cardinality(g) > 1}

\* in the frame a key region is highlighted exactly when its label is
\* pressed, and regions of one label are highlighted together
FrameHighlights ==
    /\ \A i \in 1..Len(keys) : (i \in frame.blue) <=> (keys[i].Label \in pressed)
    /\ \A g \in SharedRegions : g \subseteq frame.blue \/ g \cap frame.blue = {}

\* C15: in every frame a key region is highlighted exactly when its label is
\* in the pressed set; regions sharing a label are highlighted together; a
\* region highlighted in one frame is highlighted in every later frame.
C15_HighlightFollowsPressed ==
    [][ /\ FrameHighlights
        /\ FrameHighlights'
        /\ frame.blue \subseteq frame'.blue
      ]_vars

\* C15 witness: both Shift regions, both Ctrl regions and both Alt regions
\* are highlighted, and no Win region is.
C15_Witness ==
    /\ Cardinality(RegionsOf("Shift")) = 2 /\ RegionsOf("Shift") \subseteq frame.blue
    /\ Cardinality(RegionsOf("Ctrl")) = 2 /\ RegionsOf("Ctrl") \subseteq frame.blue
    /\ Cardinality(RegionsOf("Alt")) = 2 /\ RegionsOf("Alt") \subseteq frame.blue
    /\ Cardinality(RegionsOf("Win")) = 2 /\ RegionsOf("Win") \cap frame.blue = {}

\* C16: in the frame drawn after a key event, log entry i (from 0) is on row
\* separator+1+i, that row is below the terminal height the trim used, and
\* no character of it is painted at a column at or beyond the width.
C16_LogRowsInsideFrame ==
    (ev.type = "key" /\ pc = "poll") =>
        /\ Len(frame.log) = Len(logs)
        /\ \A i \in 0..(Len(logs) - 1) :
              LET drawn == frame.log[i + 1]
              IN  /\ drawn.text = logs[i + 1]
                  /\ drawn.row = frame.sep.y + 1 + i
                  /\ drawn.row < scrH
                  /\ drawn.cols <= scrW
                  /\ drawn.cols <= Len(drawn.text)
                  /\ drawn.cols < scrW => drawn.cols = Len(drawn.text)

\* C16 witness: a full buffer of two or more entries drawn on the narrow
\* terminal, the last on the last row, each line clipped.
C16_Witness ==
    /\ ev.type = "key" /\ pc = "poll"
    /\ Len(logs) >= 2 /\ Len(logs) = Capacity(scrH)
    /\ frame.log[Len(logs)].row = scrH - 1
    /\ \A i \in 1..Len(logs) : frame.log[i].cols < Len(frame.log[i].text)

\* whether the string sub occurs in the string str
Contains(str, sub) ==
    \E i \in 1..(Len(str) - Len(sub) + 1) : SubSeq(str, i, i + Len(sub) - 1) = sub
\* the modifier summary of a log line: what follows "Mods="
SummaryOf(line) ==
    LET i == CHOOSE j \in 1..(Len(line) - 4) : SubSeq(line, j, j + 4) = "Mods="
    IN  SubSeq(line, i + 5, Len(line))

\* C17: in every log entry the label field is exactly LabelField wide, a
\* longer label cut to it, so that " | Code=" always starts at the same
\* column.
C17_LabelFieldFixedWidth ==
    \A i \in 1..Len(logs) :
        SubSeq(logs[i], 12 + LabelField, 19 + LabelField) = " | Code="

\* the layout: nine rows at 0, 4, ..., 32; every region 3 tall and as wide as
\* its label plus 2; in a row the regions run from column 0 with one column
\* between them; no two regions overlap; the last region reaches lowest
LayoutShape ==
    LET n == Len(keys)
        Overlap(a, b) ==
            /\ a.X < b.X + b.W /\ b.X < a.X + a.W
            /\ a.Y < b.Y + b.H /\ b.Y < a.Y + a.H
    IN  /\ {keys[i].Y : i \in 1..n} = {4 * r : r \in 0..8}
        /\ \A i \in 1..n : keys[i].H = 3 /\ keys[i].W = Len(keys[i].Label) + 2
        /\ keys[1].X = 0 /\ keys[1].Y = 0
        /\ \A i \in 1..(n - 1) :
              \/ /\ keys[i + 1].Y = keys[i].Y
                 /\ keys[i + 1].X = keys[i].X + keys[i].W + 1
              \/ /\ keys[i + 1].Y = keys[i].Y + 4
                 /\ keys[i + 1].X = 0
        /\ \A i, j \in 1..n : i # j => ~Overlap(keys[i], keys[j])
        /\ \A i \in 1..n : keys[i].Y + keys[i].H <= keys[n].Y + keys[n].H

\* C18: the layout has the shape above, and the separator of every frame is
\* drawn on the row just below the last region.
C18_Layout ==
    /\ LayoutShape
    /\ frame.sep.y = keys[Len(keys)].Y + keys[Len(keys)].H

\* C18 witness: the first frame, drawn from the layout before any event.
C18_Witness ==
    /\ ev = NoEvent /\ calls = <<"drawAll", "Show">>
    /\ Len(keys) = 85 /\ keys[Len(keys)].Label = "Up"
    /\ frame.sep.y = 35 /\ frame.blue = {}

\* C19: every modifier label a non-terminating key event adds to the pressed
\* set occurs in the modifier summary of the log entry appended for it, and
\* the summary is "None" only if the event asserts no modifier.
C19_LogAgreesOnModifiers ==
    [][ (NonTerminatingKeyStep /\ Len(logs') >= 1) =>
          LET summary == SummaryOf(logs'[Len(logs')])
          IN  /\ \A l \in (pressed' \ pressed) \cap {"Ctrl", "Alt", "Shift"} :
                    Contains(summary, l)
              /\ summary = "None" => AssertedMods(ev') = {}
      ]_vars

\* C20: after unmodified Enter, Tab and Backspace events only, the pressed
\* set holds no label but "Enter", "Tab" and "Backspace".
C20_PlainKeysAddNoCtrl == pressed \subseteq {"Enter", "Tab", "Backspace"}

====
